---- MODULE Spec2Model ----
(***************************************************************************)
(* Model of the rule-matching and action-execution engine of organize      *)
(* (src/organize/cli.py): all_pathes, find_jobs, execute_rules and the     *)
(* part of cli that starts execute_rules.                                  *)
(*                                                                         *)
(* A file name is a sequence of character codes, a path is a sequence of   *)
(* names (pathlib parts); the part "/" makes a path absolute.  Filters and *)
(* actions are the collaborators of the engine; their classes live outside *)
(* cli.py and are modelled from their contract.                            *)
(***************************************************************************)
EXTENDS Integers, Sequences, FiniteSets, TLC

VARIABLES
    rules,            \* config.rules, the rules handed to execute_rules
    fs,               \* the file system: [files, dirs], sets of absolute paths
    scanRev,          \* the order in which the OS lists a directory
    pc,               \* "idle" | "job" | "act" | "done" | "failed"
    simulate,         \* argument simulate of the running execute_rules
    jobs,             \* local jobs of execute_rules
    ji,               \* index in jobs of the job of the for loop
    ai,               \* index in job.actions of the action of the inner loop
    file_attributes,  \* local file_attributes
    current_path,     \* local current_path
    calls,            \* parse and run calls the running execute_rules made
    out,              \* lines this invocation printed
    err,              \* the exception that ended this invocation, "" if none
    fs0,              \* the file system when this invocation started
    runs,             \* number of invocations of cli so far
    prev              \* what the previous invocation left: simulate, calls, ...

vars == <<rules, fs, scanRev, pc, simulate, jobs, ji, ai, file_attributes,
          current_path, calls, out, err, fs0, runs, prev>>

----------------------------------------------------------------------------
(* Bounds *)

MaxRules == 2
MaxRuns == 2

----------------------------------------------------------------------------
(* Names and paths *)

\* what a call of Action.run gives: a path, nothing (None), or an exception
Returned(path) == [kind |-> "path", path |-> path]
Nothing == [kind |-> "none", path |-> <<>>]
Raised == [kind |-> "raise", path |-> <<>>]

Min(S) == CHOOSE x \in S : \A y \in S : x <= y

Range(s) == {s[i] : i \in DOMAIN s}

Front(s) == SubSeq(s, 1, Len(s) - 1)

Last(s) == s[Len(s)]

\* str.__lt__: code point order, a proper prefix is smaller
NameLess(a, b) ==
    LET n == IF Len(a) < Len(b) THEN Len(a) ELSE Len(b)
        d == {i \in 1..n : a[i] # b[i]}
    IN  IF d = {} THEN Len(a) < Len(b) ELSE a[Min(d)] < b[Min(d)]

\* PurePath.__lt__: the parts are compared as lists of strings
PathLess(p, q) ==
    LET n == IF Len(p) < Len(q) THEN Len(p) ELSE Len(q)
        d == {i \in 1..n : p[i] # q[i]}
    IN  IF d = {} THEN Len(p) < Len(q) ELSE NameLess(p[Min(d)], q[Min(d)])

Root == <<47>>                       \* "/"
Tilde == <<126>>                     \* "~"
Home == <<Root, <<104>>>>            \* /h
Cwd == <<Root, <<119>>>>             \* /w
Pattern == <<42, 46, 42>>            \* "*.*"

\* Path.expanduser
expanduser(path) ==
    IF path # <<>> /\ Head(path) = Tilde THEN Home \o Tail(path) ELSE path

\* Path.resolve (no symbolic links in the model)
resolve(path) ==
    IF path # <<>> /\ Head(path) = Root THEN path ELSE Cwd \o path

\* fnmatch of one name against a pattern with the wildcard "*"
RECURSIVE FnMatch(_, _)
FnMatch(pat, name) ==
    IF pat = <<>> THEN name = <<>>
    ELSE IF Head(pat) = 42
         THEN FnMatch(Tail(pat), name)
              \/ (name # <<>> /\ FnMatch(pat, Tail(name)))
         ELSE name # <<>> /\ Head(name) = Head(pat)
              /\ FnMatch(Tail(pat), Tail(name))

\* os.scandir: the names of the direct children of a directory
scandir(dir) ==
    IF dir \notin fs.dirs THEN {}
    ELSE {Last(p) : p \in {x \in fs.files \cup fs.dirs :
                              Len(x) = Len(dir) + 1 /\ Front(x) = dir}}

\* the order in which the children are listed: not specified by the OS
RECURSIVE Listing(_)
Listing(names) ==
    IF names = {} THEN <<>>
    ELSE LET m == CHOOSE x \in names :
                     \A y \in names \ {x} :
                         IF scanRev THEN NameLess(y, x) ELSE NameLess(x, y)
         IN  <<m>> \o Listing(names \ {m})

\* Path(folder).glob('*.*')
glob(folder, pattern) ==
    LET listed == Listing(scandir(resolve(folder)))
        hits == SelectSeq(listed, LAMBDA name : FnMatch(pattern, name))
    IN  [i \in 1..Len(hits) |-> folder \o <<hits[i]>>]

----------------------------------------------------------------------------
(* Filters and actions: the collaborators *)

\* the suffix of a name: what follows its last dot
suffix(name) ==
    LET dots == {i \in 1..Len(name) : name[i] = 46}
    IN  IF dots = {} THEN <<>>
        ELSE SubSeq(name, Min({i \in dots : \A j \in dots : j <= i}) + 1, Len(name))

\* Filter.matches(path)
matches(f, path) ==
    CASE f.kind = "ext" -> suffix(Last(path)) = f.arg
      [] f.kind = "any" -> TRUE
      [] f.kind = "never" -> FALSE

\* Filter.parse(path): the attribute bundle
parse(f, path) == [by |-> f, of |-> path]

\* what an action returns: move returns the new place of the file
returned(a, path) ==
    CASE a.kind = "move" -> Returned(expanduser(a.arg) \o <<Last(path)>>)
      [] a.kind = "echo" -> Nothing
      [] a.kind = "trash" -> Nothing
      [] a.kind = "faulty" -> Nothing

\* whether Action.run raises
raises(a, path, sim) ==
    CASE a.kind = "move" -> ~sim /\ resolve(path) \notin fs.files \cup fs.dirs
      [] a.kind = "echo" -> FALSE
      [] a.kind = "trash" -> ~sim /\ resolve(path) \notin fs.files \cup fs.dirs
      [] a.kind = "faulty" -> TRUE

\* the entries at or below path are taken to the path to
moved(S, path, to) ==
    {IF Len(x) >= Len(path) /\ SubSeq(x, 1, Len(path)) = path
     THEN to \o SubSeq(x, Len(path) + 1, Len(x)) ELSE x : x \in S}

\* the entries at or below path are removed
removed(S, path) ==
    {x \in S : ~(Len(x) >= Len(path) /\ SubSeq(x, 1, Len(path)) = path)}

\* the directories above a path
ancestors(path) == {SubSeq(path, 1, k) : k \in 1..(Len(path) - 1)}

\* the file system after Action.run returned: move makes the directory it
\* moves to, a simulated run changes nothing
effect(a, path, sim) ==
    IF sim THEN fs
    ELSE CASE a.kind = "move" ->
                LET src == resolve(path)
                    to == resolve(returned(a, path).path)
                IN  IF src = to THEN fs
                    ELSE [files |-> moved(removed(fs.files, to), src, to),
                          dirs |-> moved(removed(fs.dirs, to), src, to)
                                       \cup ancestors(to)]
           [] a.kind = "trash" ->
                [files |-> removed(fs.files, resolve(path)),
                 dirs |-> removed(fs.dirs, resolve(path))]
           [] a.kind = "echo" -> fs
           [] a.kind = "faulty" -> fs

\* Action.run(path, file_attributes, simulate): what the call gives
run(a, path, attrs, sim) ==
    IF raises(a, path, sim) THEN Raised ELSE returned(a, path)

----------------------------------------------------------------------------
(* Job discovery *)

RECURSIVE Flatten(_)
Flatten(ss) == IF ss = <<>> THEN <<>> ELSE Head(ss) \o Flatten(Tail(ss))

all_pathes(rule) ==
    Flatten([i \in 1..Len(rule.folders) |->
                glob(expanduser(rule.folders[i]), Pattern)])

\* mutant of all_match: only the first filter decides
all_match_first(filters, path) ==
    filters = <<>> \/ matches(filters[1], path)

\* all(f.matches(path) for f in rule.filters)
all_match(filters, path) ==
    \A i \in 1..Len(filters) : matches(filters[i], path)

\* Job(path, filters, actions); rule is the identity of the list objects
\* rule.filters and rule.actions the job refers to
Job(path, rule) ==
    [path |-> path, filters |-> rule.filters, actions |-> rule.actions,
     rule |-> rule.id]

\* mutant of sorted: the jobs are returned in the order they were found
sorted_as_found(result) == result

\* sorted(result, key=lambda j: j.path): stable
RECURSIVE sorted(_)
sorted(result) ==
    IF result = <<>> THEN <<>>
    ELSE LET t == sorted(Front(result))
             x == Last(result)
             k == Cardinality({i \in 1..Len(t) : ~PathLess(x.path, t[i].path)})
         IN  SubSeq(t, 1, k) \o <<x>> \o SubSeq(t, k + 1, Len(t))

\* the jobs of one rule, in the order of the inner loop
rule_jobs(rule) ==
    LET accepted == SelectSeq(all_pathes(rule),
                              LAMBDA path : all_match(rule.filters, path))
    IN  [i \in 1..Len(accepted) |-> Job(accepted[i], rule)]

find_jobs(rs) ==
    sorted(Flatten([i \in 1..Len(rs) |-> rule_jobs(rs[i])]))

----------------------------------------------------------------------------
(* The inputs: file systems and rules *)

DirP == <<<<112>>>>                        \* p
DirQ == <<<<113>>>>                        \* q
DirR == <<Tilde, <<114>>>>                 \* ~/r

BaseDirs == {<<Root>>, Cwd, Home, resolve(DirP), resolve(DirQ),
             expanduser(DirR)}

\* p: a.t, b, c.d/ (with e.t), s/ (with f.t);  q: a.t, b.u;  ~/r: g.t
FsFull ==
    [files |-> {resolve(DirP) \o <<<<97, 46, 116>>>>,
                resolve(DirP) \o <<<<98>>>>,
                resolve(DirP) \o <<<<99, 46, 100>>, <<101, 46, 116>>>>,
                resolve(DirP) \o <<<<115>>, <<102, 46, 116>>>>,
                resolve(DirQ) \o <<<<97, 46, 116>>>>,
                resolve(DirQ) \o <<<<98, 46, 117>>>>,
                expanduser(DirR) \o <<<<103, 46, 116>>>>},
     dirs |-> BaseDirs \cup {resolve(DirP) \o <<<<99, 46, 100>>>>,
                             resolve(DirP) \o <<<<115>>>>}]

\* p: a.t, b.u, .h;  q: empty;  ~/r does not exist
FsFlat ==
    [files |-> {resolve(DirP) \o <<<<97, 46, 116>>>>,
                resolve(DirP) \o <<<<98, 46, 117>>>>,
                resolve(DirP) \o <<<<46, 104>>>>},
     dirs |-> BaseDirs \ {expanduser(DirR)}]

\* the folders exist and are empty
FsEmpty == [files |-> {}, dirs |-> BaseDirs]

FsChoices == {FsFull, FsFlat, FsEmpty}

FExtT == [kind |-> "ext", arg |-> <<116>>]
FAny == [kind |-> "any", arg |-> <<>>]
FNever == [kind |-> "never", arg |-> <<>>]

AMoveQ == [kind |-> "move", arg |-> DirQ]
AMoveR == [kind |-> "move", arg |-> DirR]
AEcho == [kind |-> "echo", arg |-> <<>>]
ATrash == [kind |-> "trash", arg |-> <<>>]
AFaulty == [kind |-> "faulty", arg |-> <<>>]

Rule(id, folders, filters, actions) ==
    [id |-> id, folders |-> folders, filters |-> filters, actions |-> actions]

Catalog ==
    {Rule(1, <<DirP>>, <<FExtT, FAny>>, <<AMoveQ, AEcho, AMoveR>>),
     Rule(2, <<DirQ, DirP>>, <<FAny>>, <<AEcho, ATrash>>),
     Rule(3, <<DirP, DirP>>, <<FAny, FExtT>>, <<AMoveQ, AFaulty, AEcho>>),
     Rule(4, <<DirP>>, <<>>, <<AEcho>>),
     Rule(5, <<>>, <<FAny>>, <<ATrash>>),
     Rule(6, <<DirR, DirQ>>, <<FExtT>>, <<ATrash>>),
     Rule(7, <<DirP>>, <<FAny, FNever>>, <<AEcho>>)}

\* the lists of at most MaxRules distinct rules
RuleLists ==
    UNION {{s \in [1..n -> Catalog] :
               \A i, j \in 1..n : s[i].id = s[j].id => i = j} : n \in 0..MaxRules}

NoAttributes == [by |-> [kind |-> "", arg |-> <<>>], of |-> <<>>]

----------------------------------------------------------------------------
(* Rule execution *)

Notice == "Nothing to do."

\* first(x): x[0]
first(x) == x[1]

\* mutant of nothing_to_do: the notice is printed whatever jobs holds
nothing_to_do_always(js) == TRUE

\* if not jobs
nothing_to_do(js) == js = <<>>

\* mutant of job_attributes: the last filter parses
job_attributes_last(job) == parse(Last(job.filters), job.path)

\* the bundle of a job: first(job.filters).parse(job.path)
job_attributes(job) == parse(first(job.filters), job.path)

\* mutant of start_path: current_path is not reset between jobs
start_path_carried(job) == IF ji = 1 THEN resolve(job.path) ELSE current_path

\* the path a job's chain starts from: job.path.resolve()
start_path(job) == resolve(job.path)

\* mutant of simulate_arg: the actions are always run for real
simulate_arg_real == FALSE

\* the simulate argument of action.run
simulate_arg == simulate

\* mutant of aborts: the exception is caught and the chain goes on
aborts_never(new_path) == FALSE

\* an exception of action.run is not caught: it ends execute_rules
aborts(new_path) == new_path.kind = "raise"

\* mutant of next_path: current_path is assigned whatever run returned
next_path_always(new_path) == new_path.path

\* if new_path is not None: current_path = new_path
next_path(new_path) ==
    IF new_path.kind # "none" THEN new_path.path ELSE current_path

\* the record of a call filter.parse(path), which gave attrs; job and idx say
\* which job of jobs was running and which filter of its list was taken
ParseCall(job, idx, path, attrs) ==
    [op |-> "parse", job |-> job, idx |-> idx, path |-> path, attrs |-> attrs,
     sim |-> FALSE, result |-> Nothing]

\* the record of a call action.run(path, attrs, sim), which gave result
RunCall(job, idx, path, attrs, sim, result) ==
    [op |-> "run", job |-> job, idx |-> idx, path |-> path, attrs |-> attrs,
     sim |-> sim, result |-> result]

Init ==
    /\ rules \in RuleLists
    /\ fs \in FsChoices
    /\ scanRev \in BOOLEAN
    /\ pc = "idle"
    /\ simulate = FALSE
    /\ jobs = <<>>
    /\ ji = 1
    /\ ai = 1
    /\ file_attributes = NoAttributes
    /\ current_path = <<>>
    /\ calls = <<>>
    /\ out = <<>>
    /\ err = ""
    /\ fs0 = fs
    /\ runs = 0
    /\ prev = [simulate |-> FALSE, calls |-> <<>>, fs0 |-> fs, pc |-> "idle",
               jobs |-> <<>>]

\* cli: execute_rules(config.rules, simulate=args['sim']), up to the for loop
Cli(sim) ==
    /\ pc \in {"idle", "done", "failed"}
    /\ runs < MaxRuns
    /\ runs' = runs + 1
    /\ prev' = [simulate |-> simulate, calls |-> calls, fs0 |-> fs0, pc |-> pc,
                jobs |-> jobs]
    /\ simulate' = sim
    /\ fs0' = fs
    /\ jobs' = find_jobs(rules)
    /\ IF nothing_to_do(jobs')
       THEN out' = <<Notice>> /\ pc' = "done"
       ELSE out' = <<>> /\ pc' = "job"
    /\ ji' = 1
    /\ ai' = 1
    /\ file_attributes' = NoAttributes
    /\ current_path' = <<>>
    /\ calls' = <<>>
    /\ err' = ""
    /\ UNCHANGED <<rules, fs, scanRev>>

\* mutant of JobStart: a job without filters gets no attributes and runs
JobStart_lenient ==
    /\ pc = "job"
    /\ ji <= Len(jobs)
    /\ IF jobs[ji].filters = <<>>
       THEN /\ file_attributes' = NoAttributes
            /\ UNCHANGED calls
       ELSE /\ file_attributes' = job_attributes(jobs[ji])
            /\ calls' = Append(calls, ParseCall(ji, 1, jobs[ji].path,
                                                file_attributes'))
    /\ current_path' = start_path(jobs[ji])
    /\ ai' = 1
    /\ pc' = "act"
    /\ UNCHANGED <<rules, fs, scanRev, simulate, jobs, ji, out, err, fs0, runs,
                   prev>>

\* for job in jobs: the attributes and the resolved path of the next job
JobStart ==
    /\ pc = "job"
    /\ ji <= Len(jobs)
    /\ IF jobs[ji].filters = <<>>
       THEN /\ pc' = "failed"
            /\ err' = "IndexError"
            /\ UNCHANGED <<file_attributes, current_path, calls, ai>>
       ELSE /\ file_attributes' = job_attributes(jobs[ji])
            /\ calls' = Append(calls, ParseCall(ji, 1, jobs[ji].path,
                                                file_attributes'))
            /\ current_path' = start_path(jobs[ji])
            /\ ai' = 1
            /\ pc' = "act"
            /\ UNCHANGED err
    /\ UNCHANGED <<rules, fs, scanRev, simulate, jobs, ji, out, fs0, runs, prev>>

\* for action in job.actions: one action.run and the update of current_path
RunAction ==
    /\ pc = "act"
    /\ ai <= Len(jobs[ji].actions)
    /\ LET action == jobs[ji].actions[ai]
           new_path == run(action, current_path, file_attributes, simulate_arg)
       IN  /\ calls' = Append(calls, RunCall(ji, ai, current_path,
                                             file_attributes, simulate_arg,
                                             new_path))
           /\ IF aborts(new_path)
              THEN /\ pc' = "failed"
                   /\ err' = "ActionError"
                   /\ UNCHANGED <<fs, current_path, ai>>
              ELSE /\ fs' = effect(action, current_path, simulate_arg)
                   /\ current_path' = next_path(new_path)
                   /\ ai' = ai + 1
                   /\ UNCHANGED <<pc, err>>
    /\ UNCHANGED <<rules, scanRev, simulate, jobs, ji, file_attributes, out,
                   fs0, runs, prev>>

\* the inner loop is over: the next job
NextJob ==
    /\ pc = "act"
    /\ ai > Len(jobs[ji].actions)
    /\ ji' = ji + 1
    /\ pc' = "job"
    /\ UNCHANGED <<rules, fs, scanRev, simulate, jobs, ai, file_attributes,
                   current_path, calls, out, err, fs0, runs, prev>>

\* the outer loop is over: execute_rules returns
Return ==
    /\ pc = "job"
    /\ ji > Len(jobs)
    /\ pc' = "done"
    /\ UNCHANGED <<rules, fs, scanRev, simulate, jobs, ji, ai, file_attributes,
                   current_path, calls, out, err, fs0, runs, prev>>

Next ==
    \/ \E sim \in BOOLEAN : Cli(sim)
    \/ JobStart
    \/ RunAction
    \/ NextJob
    \/ Return

Spec == Init /\ [][Next]_vars

----------------------------------------------------------------------------
(* Properties *)

Max(S) == CHOOSE x \in S : \A y \in S : y <= x

\* execute_rules has called find_jobs and the file system is as find_jobs saw it
Fresh == pc # "idle" /\ calls = <<>> /\ fs = fs0

\* the jobs of js that come from rule
JobsOf(js, rule) == {i \in DOMAIN js : js[i].rule = rule.id}

\* every filter of the rule returns true for the path
Accepts(rule, path) ==
    \A k \in DOMAIN rule.filters : matches(rule.filters[k], path)

\* C1: find_jobs produces a Job for a candidate path of a rule if and only if
\* every filter of the rule returns true for that path (one Job per time the
\* path is enumerated), and with any single filter of a rule changed to
\* always-false no job of that rule is left.
C1_ConjunctionLaw ==
    Fresh =>
        \A r \in DOMAIN rules :
            LET cand == all_pathes(rules[r])
                mine == JobsOf(jobs, rules[r])
            IN  /\ \A c \in Range(cand) :
                       (\E i \in mine : jobs[i].path = c) <=> Accepts(rules[r], c)
                /\ \A i \in mine : jobs[i].path \in Range(cand)
                /\ Cardinality(mine)
                     = Cardinality({n \in DOMAIN cand : Accepts(rules[r], cand[n])})
                /\ \A k \in DOMAIN rules[r].filters :
                       JobsOf(find_jobs([rules EXCEPT ![r].filters[k] = FNever]),
                              rules[r]) = {}

\* C1 witness: a rule of two filters with a candidate its second filter
\* rejects and a candidate that became a job
C1_Witness ==
    /\ Fresh
    /\ \E r \in DOMAIN rules :
           /\ Len(rules[r].filters) = 2
           /\ JobsOf(jobs, rules[r]) # {}
           /\ \E c \in Range(all_pathes(rules[r])) :
                  /\ matches(rules[r].filters[1], c)
                  /\ ~matches(rules[r].filters[2], c)

IsSorted(js) ==
    \A i \in 1..(Len(js) - 1) : ~PathLess(js[i + 1].path, js[i].path)

BagOf(js) ==
    [x \in Range(js) |-> Cardinality({i \in DOMAIN js : js[i] = x})]

Perms(n) == {f \in [1..n -> 1..n] : \A i, j \in 1..n : f[i] = f[j] => i = j}

\* the rule with its folders in any order
FolderOrders(rule) ==
    {[rule EXCEPT !.folders = [i \in DOMAIN rule.folders |-> rule.folders[f[i]]]] :
        f \in Perms(Len(rule.folders))}

\* the rules in any order, each with its folders in any order
Reorderings(rs) ==
    {s \in [DOMAIN rs -> UNION {FolderOrders(rs[i]) : i \in DOMAIN rs}] :
        \E f \in Perms(Len(rs)) : \A i \in DOMAIN rs : s[i] \in FolderOrders(rs[f[i]])}

\* C2: the sequence find_jobs returns is sorted by path (non-decreasing), and
\* it is the same multiset of jobs for every order of the rules and of the
\* folders of each rule.
C2_SortedAnyOrder ==
    Fresh =>
        /\ IsSorted(jobs)
        /\ \A s \in Reorderings(rules) :
               /\ IsSorted(find_jobs(s))
               /\ BagOf(find_jobs(s)) = BagOf(jobs)

\* C2 witness: a job of a later rule stands before a job of an earlier rule
C2_Witness ==
    /\ Fresh
    /\ \E i, k \in DOMAIN jobs :
           /\ i < k
           /\ PathLess(jobs[i].path, jobs[k].path)
           /\ \E a, b \in DOMAIN rules :
                  /\ b < a
                  /\ rules[a].id = jobs[i].rule
                  /\ rules[b].id = jobs[k].rule

\* the path the code must hand to a call of run made by job j when the calls
\* 1..n-1 are behind it: the last path an action of the job returned, or the
\* resolved path of the job
Chained(j, n) ==
    LET earlier == {m \in 1..(n - 1) : /\ calls[m].op = "run"
                                       /\ calls[m].job = j
                                       /\ calls[m].result.kind = "path"}
    IN  IF earlier = {} THEN resolve(jobs[j].path)
        ELSE calls[Max(earlier)].result.path

\* C3: within one job the first action gets the resolved job path and each
\* later action gets the most recent path a preceding action of the job
\* returned (the resolved job path when none returned one); an action that
\* returns nothing leaves the current path as it is.
C3_PathChaining ==
    /\ \A n \in DOMAIN calls :
           calls[n].op = "run" =>
               /\ calls[n].path = Chained(calls[n].job, n)
               /\ calls[n].idx = 1 => calls[n].path = resolve(jobs[calls[n].job].path)
    /\ pc = "act" => current_path = Chained(ji, Len(calls) + 1)

\* C3 witness: A1 returned P2, A2 returned nothing and saw P2, A3 saw P2 and
\* returned P3, which is the final path of the job
C3_Witness ==
    /\ pc = "act"
    /\ \E n \in DOMAIN calls :
           /\ n >= 3
           /\ n = Len(calls)
           /\ calls[n].op = "run" /\ calls[n].idx = 3 /\ calls[n].job = ji
           /\ calls[n - 2].op = "run" /\ calls[n - 2].result.kind = "path"
           /\ calls[n - 1].result.kind = "none"
           /\ calls[n - 1].path = calls[n - 2].result.path
           /\ calls[n].path = calls[n - 2].result.path
           /\ calls[n].path # resolve(jobs[ji].path)
           /\ calls[n].result.kind = "path"
           /\ calls[n].result.path # calls[n].path
           /\ current_path = calls[n].result.path

\* C4: the bundle handed to every action of a job is the bundle parse of the
\* first filter of the job's rule returned for the job's path; parse is
\* called once per job, on that filter only.
C4_AttributePropagation ==
    \A n \in DOMAIN calls :
        LET c == calls[n]
            job == jobs[c.job]
        IN  /\ c.attrs = [by |-> job.filters[1], of |-> job.path]
            /\ c.op = "parse" =>
                   /\ c.idx = 1
                   /\ c.path = job.path
                   /\ \A m \in DOMAIN calls :
                          (calls[m].op = "parse" /\ calls[m].job = c.job) => m = n
            /\ c.op = "run" =>
                   \E m \in 1..(n - 1) :
                       /\ calls[m].op = "parse"
                       /\ calls[m].job = c.job
                       /\ calls[m].attrs = c.attrs

\* C4 witness: the second action of a job whose rule has two different
\* filters got the bundle of the first
C4_Witness ==
    \E n \in DOMAIN calls :
        /\ calls[n].op = "run"
        /\ calls[n].idx = 2
        /\ Len(jobs[calls[n].job].filters) = 2
        /\ jobs[calls[n].job].filters[1] # jobs[calls[n].job].filters[2]
        /\ calls[n].attrs.by = jobs[calls[n].job].filters[1]

\* the same call: the same operation of the same job on the same arguments
SameCall(a, b) ==
    /\ a.op = b.op
    /\ a.job = b.job
    /\ a.idx = b.idx
    /\ a.path = b.path
    /\ a.attrs = b.attrs

\* this invocation and the previous one ran in different modes on the same
\* directory contents
Paired == runs >= 2 /\ prev.simulate # simulate /\ fs0 = prev.fs0

\* call m gave in this invocation what it gave in the previous one
SameResult(m) ==
    m <= Len(prev.calls) /\ calls[m].result = prev.calls[m].result

\* as long as the actions returned the same in both modes, this invocation
\* made the calls the previous one made
SameCalls ==
    Paired =>
        /\ prev.jobs = jobs
        /\ \A n \in DOMAIN calls :
               (\A m \in 1..(n - 1) : SameResult(m))
                   => (n <= Len(prev.calls) /\ SameCall(prev.calls[n], calls[n]))
        /\ (pc \in {"done", "failed"} /\ \A m \in DOMAIN calls : SameResult(m))
               => (Len(calls) = Len(prev.calls) /\ pc = prev.pc)

\* C5: execute_rules with simulate=true hands simulate=true to every run and
\* leaves the file system as it is (the engine changes it in no mode: only a
\* run with simulate=false does), and a simulated and a real invocation on the
\* same rules and directory contents make the same parse and run calls in the
\* same order as long as the actions return the same in both modes.
C5_SimulateMode ==
    /\ [](\A n \in DOMAIN calls : calls[n].op = "run" => calls[n].sim = simulate)
    /\ [][(simulate' /\ pc' # "idle") => fs' = fs]_vars
    /\ [][fs' # fs => (pc = "act" /\ ~simulate /\ Len(calls') = Len(calls) + 1)]_vars
    /\ []SameCalls

\* C5 witness: a real invocation after a simulated one made the same calls and
\* changed the file system the simulated one had left alone
C5_Witness ==
    /\ Paired
    /\ prev.simulate
    /\ pc = "done"
    /\ Len(calls) >= 4
    /\ Len(calls) = Len(prev.calls)
    /\ fs # fs0

\* C6: when no candidate path matches, find_jobs returns no job and
\* execute_rules prints the notice exactly once and returns without a call of
\* parse or run; with at least one job the notice is not printed.
C6_NothingToDo ==
    /\ Fresh =>
           ((\A r \in DOMAIN rules : \A c \in Range(all_pathes(rules[r])) :
                 ~Accepts(rules[r], c)) => jobs = <<>>)
    /\ pc # "idle" =>
           /\ jobs = <<>> => (out = <<Notice>> /\ calls = <<>> /\ pc = "done"
                              /\ err = "")
           /\ jobs # <<>> => out = <<>>

\* C6 witness: the rules have candidate paths, the filters reject them all,
\* and the invocation ended with the notice
C6_Witness ==
    /\ pc = "done"
    /\ jobs = <<>>
    /\ out = <<Notice>>
    /\ \E r \in DOMAIN rules : all_pathes(rules[r]) # <<>>

\* every action of job j has been run, in order
Completed(j) ==
    \A a \in DOMAIN jobs[j].actions :
        \E n \in DOMAIN calls :
            calls[n].op = "run" /\ calls[n].job = j /\ calls[n].idx = a

\* C7: a path that matches the filters of two rules gives two Jobs, one per
\* rule with that rule's filters and actions; no job is skipped: the chain of
\* a job is run in full before the next job starts and an invocation that
\* returns has run the chains of all jobs; each chain starts from the resolved
\* path of its job, not from where another job left off.
C7_NoDeduplication ==
    /\ Fresh =>
           \A r1, r2 \in DOMAIN rules :
               r1 # r2 =>
                   \A c \in Range(all_pathes(rules[r1])) \cap Range(all_pathes(rules[r2])) :
                       (Accepts(rules[r1], c) /\ Accepts(rules[r2], c)) =>
                           \E i, k \in DOMAIN jobs :
                               /\ i # k
                               /\ jobs[i].path = c /\ jobs[k].path = c
                               /\ jobs[i].rule = rules[r1].id
                               /\ jobs[i].filters = rules[r1].filters
                               /\ jobs[i].actions = rules[r1].actions
                               /\ jobs[k].rule = rules[r2].id
                               /\ jobs[k].filters = rules[r2].filters
                               /\ jobs[k].actions = rules[r2].actions
    /\ \A n \in DOMAIN calls :
           (calls[n].op = "run" /\ calls[n].idx = 1) =>
               calls[n].path = resolve(jobs[calls[n].job].path)
    /\ pc # "idle" => \A j \in 1..(ji - 1) : Completed(j)
    /\ (pc = "done" /\ jobs # <<>>) => ji = Len(jobs) + 1

\* C7 witness: two jobs of different rules for one path; the first ended on a
\* path an action returned, and the chain of the second was run from the
\* resolved discovered path
C7_Witness ==
    \E i, k \in DOMAIN jobs :
        /\ i < k
        /\ jobs[i].path = jobs[k].path
        /\ jobs[i].rule # jobs[k].rule
        /\ Completed(i)
        /\ Completed(k)
        /\ k < ji \/ pc = "done"
        /\ \E n, m \in DOMAIN calls :
               /\ calls[n].op = "run" /\ calls[n].job = i
               /\ calls[n].result.kind = "path"
               /\ calls[m].op = "run" /\ calls[m].job = k /\ calls[m].idx = 1
               /\ n < m
               /\ calls[m].path = resolve(jobs[k].path)
               /\ calls[m].path # calls[n].result.path

\* C8: the candidate paths, and so the paths of the jobs, are files that are
\* direct children of a folder of the rule and have a dot in their name: no
\* directory and no entry of a subdirectory.
C8_FilesOnlyOneLevel ==
    \A i \in DOMAIN jobs :
        /\ resolve(jobs[i].path) \in fs0.files
        /\ resolve(jobs[i].path) \notin fs0.dirs
        /\ \E r \in DOMAIN rules :
               /\ rules[r].id = jobs[i].rule
               /\ \E f \in DOMAIN rules[r].folders :
                      Front(jobs[i].path) = expanduser(rules[r].folders[f])
        /\ \E d \in DOMAIN Last(jobs[i].path) : Last(jobs[i].path)[d] = 46

\* the jobs whose rule has no filter
Unfiltered == {j \in DOMAIN jobs : jobs[j].filters = <<>>}

\* C9: an exception of action.run is neither caught nor retried: the call
\* that raised is the last call of the invocation, which ends there, so no
\* later action of the job and no action of a later job is run; the step
\* leaves the file system as the earlier actions made it.
C9_ActionFailureAborts ==
    /\ [](\A n \in DOMAIN calls :
              calls[n].result.kind = "raise" =>
                  /\ n = Len(calls)
                  /\ pc = "failed"
                  /\ err = "ActionError"
                  /\ ji = calls[n].job
                  /\ ai = calls[n].idx)
    /\ [][(pc = "act" /\ pc' = "failed") => fs' = fs]_vars
    /\ [][(pc = "failed" /\ pc' = "failed" /\ runs' = runs) => UNCHANGED vars]_vars

\* C9 witness: the second action of a job raised after the first had moved the
\* file; the job has a third action and a later job waits
C9_Witness ==
    /\ pc = "failed"
    /\ err = "ActionError"
    /\ fs # fs0
    /\ ai = 2
    /\ ai < Len(jobs[ji].actions)
    /\ ji < Len(jobs)
    /\ calls[Len(calls)].result.kind = "raise"
    /\ calls[Len(calls) - 1].job = ji
    /\ calls[Len(calls) - 1].result.kind = "path"
    /\ resolve(calls[Len(calls) - 1].result.path) \in fs.files
    /\ resolve(jobs[ji].path) \notin fs.files

\* C10: for a rule without filters every candidate path is a job, and
\* execute_rules fails with the IndexError of first() at the first such job,
\* never elsewhere: no parse or run call is made for that job or a later one,
\* and the invocation does not return normally.
C10_EmptyFilterList ==
    /\ Fresh =>
           \A r \in DOMAIN rules :
               rules[r].filters = <<>> =>
                   Cardinality(JobsOf(jobs, rules[r])) = Len(all_pathes(rules[r]))
    /\ err = "IndexError" =>
           (Unfiltered # {} /\ ji = Min(Unfiltered) /\ pc = "failed")
    /\ (pc # "idle" /\ Unfiltered # {}) =>
           /\ \A n \in DOMAIN calls : calls[n].job < Min(Unfiltered)
           /\ pc # "done"
           /\ ji <= Min(Unfiltered)
           /\ (ji = Min(Unfiltered) /\ pc # "job") =>
                  (pc = "failed" /\ err = "IndexError")

\* C10 witness: the invocation ran an earlier job, failed with the IndexError
\* at a job without filters, and left a later job
C10_Witness ==
    /\ pc = "failed"
    /\ err = "IndexError"
    /\ jobs[ji].filters = <<>>
    /\ jobs[ji].actions # <<>>
    /\ 1 < ji
    /\ ji < Len(jobs)
    /\ \E n \in DOMAIN calls : calls[n].op = "run"

====
